---------------------------- MODULE Spec2Model ----------------------------
(***************************************************************************)
(* Segregated-fit storage allocator (final revision, 4-byte headers and    *)
(* 4-byte link offsets).  Addresses are byte offsets from mem_heap_lo(),   *)
(* which is 8-aligned; heap_head is therefore offset 0 and doubles as the  *)
(* nil link.  The region is modelled word by word (4-byte words): mem[w]   *)
(* is the unsigned int stored at byte offset 4*w.  The bin table occupies  *)
(* the first BIN*WSIZE bytes of the region and is kept in the variable     *)
(* bin; every other byte of the region is in mem.                          *)
(***************************************************************************)
EXTENDS Integers, Sequences, FiniteSets, TLC

\* ---- program constants -------------------------------------------------
WSIZE == 8
DSIZE == 16
HSIZE == 4
CHUNKSIZE == 256
BIN == 38
MSIZE == 256
MINSIZE == 12

\* ---- bounds of the model -----------------------------------------------
\* capacity of the region provider, counted in CHUNKSIZE units that may be
\* added after the initial heap (small and large workloads)
MaxChunks == 2
MaxChunksLarge == 17
\* number of public calls the client makes after mm_init
MaxOps == 4
MaxOpsLarge == 3
\* largest block size given to the class index, counted in WSIZE units
MaxSizeUnits == 4200

VARIABLES mem, bin, brk, heap_listp, tail_block, live, call, status, profile,
          ops

vars ==
  <<mem, bin, brk, heap_listp, tail_block, live, call, status, profile, ops>>

\* the allocator's own state, passed through the translated functions
Heap == [mem |-> mem, bin |-> bin, brk |-> brk, heap_listp |-> heap_listp]

NULL == 0
heap_head == 0

\* bytes taken by mm_init before the first block: bin table, padding,
\* prologue header and footer, first epilogue header
TableBytes == BIN * WSIZE
InitBytes == DSIZE + BIN * WSIZE

\* ---- region provider (memlib) ------------------------------------------
mem_heap_lo == 0

mem_heap_hi(h) == h.brk - 1

Limit ==
  InitBytes + CHUNKSIZE
    + CHUNKSIZE * (IF profile = "large" THEN MaxChunksLarge ELSE MaxChunks)

\* mem_sbrk: grows the region by incr bytes and returns the old break, or
\* fails (-1) when the provider's capacity would be exceeded.  The new
\* words are not initialised by the provider; the allocator writes every
\* word it later reads, so they are given the value 0 here.
mem_sbrk_ok(h, incr) == h.brk + incr <= Limit

mem_sbrk(h, incr) ==
  [h EXCEPT !.brk = h.brk + incr,
            !.mem = [w \in (TableBytes \div 4)..((h.brk + incr) \div 4 - 1) |->
                       IF w < h.brk \div 4 THEN h.mem[w] ELSE 0]]

\* ---- helper functions --------------------------------------------------
aligned(p) == ((p + 7) \div 8) * 8 = p

in_heap(h, p) == p <= mem_heap_hi(h) + 1 /\ p >= mem_heap_lo

max(x, y) == IF x > y THEN x ELSE y

min(x, y) == IF x > y THEN y ELSE x

\* size | (prev_alloc << 1) | alloc
pack(size, prev_alloc, alloc) ==
  LET low == size % 4
      b0 == max(low % 2, alloc)
      b1 == max(low \div 2, prev_alloc)
  IN (size \div 4) * 4 + 2 * b1 + b0

get(h, block) == h.mem[block \div 4]

put(h, block, val) == [h EXCEPT !.mem[block \div 4] = val]

get_size(h, block) == (get(h, block) \div 8) * 8

get_alloc(h, block) == get(h, block) % 2

get_prev_alloc(h, block) == (get(h, block) \div 2) % 2

header_pointer(block) == block - HSIZE

footer_pointer(h, block) == block + get_size(h, header_pointer(block)) - WSIZE

next_block(h, block) == block + get_size(h, header_pointer(block))

prev_block(h, block) == block - get_size(h, block - WSIZE)

put_next_ptr(h, block, ptr) == [h EXCEPT !.mem[block \div 4] = ptr - heap_head]

put_prev_ptr(h, block, ptr) == [h EXCEPT !.mem[(block + HSIZE) \div 4] = ptr - heap_head]

next(h, block) == h.mem[block \div 4] + heap_head

prev(h, block) == h.mem[(block + HSIZE) \div 4] + heap_head

set_bin(h, i, p) == [h EXCEPT !.bin[i] = p]

\* ---- size classes ------------------------------------------------------
RECURSIVE halve(_, _)
halve(i, size) ==
  IF i < BIN - 1 /\ size > MSIZE THEN halve(i + 1, size \div 2) ELSE i

insert_index(size) ==
  IF size <= MSIZE THEN (size - DSIZE) \div WSIZE
  ELSE halve((MSIZE - DSIZE) \div WSIZE, size)

delete_index(size) ==
  IF size <= MSIZE THEN (size - DSIZE) \div WSIZE
  ELSE halve((MSIZE - DSIZE) \div WSIZE, size)

find_fit_index(size) ==
  IF size <= MSIZE THEN (size - DSIZE) \div WSIZE
  ELSE halve((MSIZE - DSIZE) \div WSIZE, size)

\* ---- free-list index ---------------------------------------------------
\* Intermediate heaps are passed as operator parameters, one operator per
\* group of statements, so that every statement reads the heap left by the
\* statement before it.

\* the walk of insert: <<bin_pointer, insert_pointer>> where it stops
RECURSIVE insert_walk(_, _, _, _)
insert_walk(h, asize, bin_pointer, insert_pointer) ==
  IF bin_pointer # heap_head /\ asize > get_size(h, header_pointer(bin_pointer))
  THEN insert_walk(h, asize, next(h, bin_pointer), bin_pointer)
  ELSE <<bin_pointer, insert_pointer>>

\* an insert that never writes the prev link of the block it is put before
insert_link_oneway(h, bp, i, bin_pointer, insert_pointer) ==
  IF insert_pointer # heap_head
  THEN put_next_ptr(put_prev_ptr(put_next_ptr(h, bp, bin_pointer),
            bp, insert_pointer), insert_pointer, bp)
  ELSE set_bin(put_prev_ptr(put_next_ptr(h, bp, bin_pointer), bp, heap_head),
               i, bp)

\* lines 349-378 of insert: bp linked between insert_pointer and bin_pointer
insert_link(h, bp, i, bin_pointer, insert_pointer) ==
  IF bin_pointer # heap_head
  THEN IF insert_pointer # heap_head
       THEN put_next_ptr(put_prev_ptr(put_prev_ptr(put_next_ptr(h, bp, bin_pointer),
                 bin_pointer, bp), bp, insert_pointer), insert_pointer, bp)
       ELSE set_bin(put_prev_ptr(put_prev_ptr(put_next_ptr(h, bp, bin_pointer),
                 bin_pointer, bp), bp, heap_head), i, bp)
  ELSE IF insert_pointer # heap_head
       THEN put_next_ptr(put_prev_ptr(put_next_ptr(h, bp, heap_head),
                 bp, insert_pointer), insert_pointer, bp)
       ELSE set_bin(put_prev_ptr(put_next_ptr(h, bp, heap_head), bp, heap_head), i, bp)

\* an insert that walks every list past the entries of the same size
insert_place_after(h, asize, i) ==
  insert_walk(h, asize + 1, h.bin[i], heap_head)

\* lines 332-348 of insert: the bin and the place in its list
insert_place(h, asize, i) ==
  IF asize <= MSIZE THEN <<h.bin[i], heap_head>>
  ELSE insert_walk(h, asize, h.bin[i], heap_head)

insert_sized(h, bp, i, w) == insert_link(h, bp, i, w[1], w[2])

insert_in(h, bp, asize, i) == insert_sized(h, bp, i, insert_place(h, asize, i))

insert_as(h, bp, asize) == insert_in(h, bp, asize, insert_index(asize))

insert(h, bp) == insert_as(h, bp, get_size(h, header_pointer(bp)))

\* the second statement of the branch of delete that relinks both neighbours
delete_relink(h1, bp) == put_next_ptr(h1, prev(h1, bp), next(h1, bp))

\* the second statement of the branch of delete that moves the bin head
delete_rehead(h1, bp, i) == set_bin(h1, i, next(h1, bp))

delete_from(h, bp, i) ==
  IF next(h, bp) # heap_head
  THEN IF prev(h, bp) # heap_head
       THEN delete_relink(put_prev_ptr(h, next(h, bp), prev(h, bp)), bp)
       ELSE delete_rehead(put_prev_ptr(h, next(h, bp), heap_head), bp, i)
  ELSE IF prev(h, bp) # heap_head
       THEN put_next_ptr(h, prev(h, bp), heap_head)
       ELSE set_bin(h, i, heap_head)

delete(h, bp) == delete_from(h, bp, delete_index(get_size(h, header_pointer(bp))))

\* ---- coalescer --------------------------------------------------------
put_footer(h1, bp, size) ==
  put(h1, footer_pointer(h1, bp),
      pack(size, get_prev_alloc(h1, header_pointer(bp)), 0))

\* header and footer of bp rewritten as a free block of the given size
put_free_tags(h, bp, size) ==
  put_footer(put(h, header_pointer(bp),
                 pack(size, get_prev_alloc(h, header_pointer(bp)), 0)), bp, size)

\* insert(bp); return bp
linked(h, bp) == [h |-> insert(h, bp), bp |-> bp]

\* case 2 after delete(next_block(bp))
coalesce_next(h1, bp, size) ==
  linked(put_free_tags(h1, bp,
           size + get_size(h1, header_pointer(next_block(h1, bp)))), bp)

\* case 3 after delete(prev_block(bp))
coalesce_prev(h1, bp, size) ==
  linked(put_free_tags(h1, prev_block(h1, bp),
           size + get_size(h1, header_pointer(prev_block(h1, bp)))),
         prev_block(h1, bp))

\* case 4 after both deletes
coalesce_both(h2, bp, size) ==
  linked(put_free_tags(h2, prev_block(h2, bp),
           size + get_size(h2, header_pointer(prev_block(h2, bp)))
                + get_size(h2, header_pointer(next_block(h2, bp)))),
         prev_block(h2, bp))

\* case 4 after delete(next_block(bp))
coalesce_both_prev(h1, bp, size) ==
  coalesce_both(delete(h1, prev_block(h1, bp)), bp, size)

\* a coalescer that links the block without merging it
coalesce_apart(h, bp, size, prev_alloc, next_alloc) == linked(h, bp)

coalesce_cases(h, bp, size, prev_alloc, next_alloc) ==
  IF prev_alloc = 1 /\ next_alloc = 1 THEN linked(h, bp)
  ELSE IF prev_alloc = 1 /\ next_alloc = 0
  THEN coalesce_next(delete(h, next_block(h, bp)), bp, size)
  ELSE IF prev_alloc = 0 /\ next_alloc = 1
  THEN coalesce_prev(delete(h, prev_block(h, bp)), bp, size)
  ELSE coalesce_both_prev(delete(h, next_block(h, bp)), bp, size)

coalesce(h, bp) ==
  coalesce_cases(h, bp, get_size(h, header_pointer(bp)),
                 get_prev_alloc(h, header_pointer(bp)),
                 get_alloc(h, header_pointer(next_block(h, bp))))

\* ---- heap extension and initialisation ---------------------------------
put_epilogue(h2, bp) ==
  put(h2, header_pointer(next_block(h2, bp)), pack(0, 0, 1))

\* lines 274-283 of extend_heap, after mem_sbrk returned bp
extend_tags(h1, bp, size) ==
  coalesce(put_epilogue(put_free_tags(h1, bp, size), bp), bp)

\* extend_heap that writes the new header before it looks at what mem_sbrk
\* returned
extend_by_eager(h, size) ==
  IF ~mem_sbrk_ok(h, size)
  THEN [h |-> put(h, header_pointer(h.brk),
                  pack(size, get_prev_alloc(h, header_pointer(h.brk)), 0)),
        bp |-> NULL]
  ELSE extend_tags(mem_sbrk(h, size), h.brk, size)

extend_by(h, size) ==
  IF ~mem_sbrk_ok(h, size) THEN [h |-> h, bp |-> NULL]
  ELSE extend_tags(mem_sbrk(h, size), h.brk, size)

extend_heap(h, words) ==
  extend_by(h, IF words % 2 = 1 THEN (words + 1) * WSIZE ELSE words * WSIZE)

\* the allocator before mm_init: an empty region
Empty ==
  [mem |-> [w \in {} |-> 0], bin |-> [i \in 0..(BIN - 1) |-> NULL],
   brk |-> 0, heap_listp |-> NULL]

\* mm_init whose second call leaves the bin heads as they are
set_bins_kept(h1) ==
  [h1 EXCEPT !.bin = [i \in 0..(BIN - 1) |->
                        IF h1.heap_listp = NULL THEN heap_head ELSE h1.bin[i]]]

set_bins(h1) == [h1 EXCEPT !.bin = [i \in 0..(BIN - 1) |-> heap_head]]

set_listp(h, p) == [h EXCEPT !.heap_listp = p]

\* lines 254-258 of mm_init
put_sentinels(h2, listp) ==
  set_listp(put(put(put(put(h2, listp, 0),
                        listp + 1 * HSIZE, pack(WSIZE, 1, 1)),
                    listp + 2 * HSIZE, pack(WSIZE, 1, 1)),
                listp + 3 * HSIZE, pack(0, 1, 1)),
            listp + WSIZE)

\* lines 260-263 of mm_init
init_result(h7, r) ==
  IF r.bp = NULL THEN [h |-> h7, rc |-> -1] ELSE [h |-> r.h, rc |-> 0]

init_extend(h7) == init_result(h7, extend_heap(h7, CHUNKSIZE \div WSIZE))

mm_init(h) ==
  IF ~mem_sbrk_ok(h, DSIZE + BIN * WSIZE)
  THEN [h |-> set_listp(h, -1), rc |-> -1]
  ELSE init_extend(put_sentinels(set_bins(mem_sbrk(h, DSIZE + BIN * WSIZE)),
                                 h.brk + BIN * WSIZE))

\* ---- search and placement ---------------------------------------------
\* a search that takes the head of a list without comparing sizes
find_in_list_head(h, asize, bp) == bp

RECURSIVE find_in_list(_, _, _)
find_in_list(h, asize, bp) ==
  IF bp # heap_head /\ asize > get_size(h, header_pointer(bp))
  THEN find_in_list(h, asize, next(h, bp))
  ELSE bp

RECURSIVE find_from(_, _, _)
find_from(h, asize, i) ==
  IF i < BIN
  THEN IF h.bin[i] # heap_head /\ find_in_list(h, asize, h.bin[i]) # heap_head
       THEN find_in_list(h, asize, h.bin[i])
       ELSE find_from(h, asize, i + 1)
  ELSE NULL

find_fit(h, asize) == find_from(h, asize, find_fit_index(asize))

\* the header of the block after bp rewritten with the given prev_alloc bit
\* the P bit of the next block written without keeping its A bit
set_next_bare(h, bp, bit) ==
  put(h, header_pointer(next_block(h, bp)),
      pack(get_size(h, header_pointer(next_block(h, bp))), bit, 0))

set_next_prev_alloc(h, bp, bit) ==
  put(h, header_pointer(next_block(h, bp)),
      pack(get_size(h, header_pointer(next_block(h, bp))), bit,
           get_alloc(h, header_pointer(next_block(h, bp)))))

split_footer(h2, bp, rest) ==
  put(h2, footer_pointer(h2, next_block(h2, bp)), pack(rest, 1, 0))

split_header(h1, bp, rest) ==
  split_footer(put(h1, header_pointer(next_block(h1, bp)), pack(rest, 1, 0)),
               bp, rest)

\* bp cut to asize, the rest made a free block of the given size
split(h, bp, asize, rest) ==
  split_header(put(h, header_pointer(bp),
                   pack(asize, get_prev_alloc(h, header_pointer(bp)), 1)),
               bp, rest)

\* bp marked allocated with the given size, the next block told so
take_whole(h, bp, size) ==
  set_next_prev_alloc(put(h, header_pointer(bp),
                          pack(size, get_prev_alloc(h, header_pointer(bp)), 1)),
                      bp, 1)

insert_rest(h2, bp) == insert(h2, next_block(h2, bp))

\* place that never cuts the remainder off
place_cut_whole(h1, bp, asize, oldsize) == take_whole(h1, bp, asize)

\* lines 483-493 of place, after delete(bp)
place_cut(h1, bp, asize, oldsize) ==
  IF oldsize - asize >= DSIZE
  THEN insert_rest(split(h1, bp, asize, oldsize - asize), bp)
  ELSE take_whole(h1, bp, oldsize)

\* place that leaves the block in its bin list
place_kept(h, bp, asize) ==
  place_cut(h, bp, asize, get_size(h, header_pointer(bp)))

place(h, bp, asize) ==
  place_cut(delete(h, bp), bp, asize, get_size(h, header_pointer(bp)))

\* ---- public operations -------------------------------------------------
\* the size adjustment without room for the header
adjust_bare(size) ==
  IF size <= MINSIZE THEN DSIZE
  ELSE WSIZE * ((size + WSIZE - 1) \div WSIZE)

adjust(size) ==
  IF size <= MINSIZE THEN DSIZE
  ELSE WSIZE * ((size + HSIZE + WSIZE - 1) \div WSIZE)

\* malloc handing out the address of the header
placed_header(h, bp, asize) ==
  [h |-> place(h, bp, asize), bp |-> header_pointer(bp)]

placed(h, bp, asize) == [h |-> place(h, bp, asize), bp |-> bp]

\* lines 439-444 of malloc, r the result of extend_heap
malloc_extended(h, r, asize) ==
  IF r.bp = NULL THEN [h |-> r.h, bp |-> NULL] ELSE placed(r.h, r.bp, asize)

\* malloc that extends the heap whatever find_fit returned
malloc_fit_grown(h, fit, asize) ==
  malloc_extended(h, extend_heap(h, max(asize, CHUNKSIZE) \div WSIZE), asize)

\* lines 436-444 of malloc, fit the result of find_fit
malloc_fit(h, fit, asize) ==
  IF fit # NULL THEN placed(h, fit, asize)
  ELSE malloc_extended(h, extend_heap(h, max(asize, CHUNKSIZE) \div WSIZE), asize)

malloc_sized(h, asize) == malloc_fit(h, find_fit(h, asize), asize)

\* malloc without the test for a request of zero bytes
malloc_unchecked(h, size) == malloc_sized(h, adjust(size))

malloc(h, size) ==
  IF size <= 0 THEN [h |-> h, bp |-> NULL]
  ELSE malloc_sized(h, adjust(size))

\* free that leaves the P bit of the next block alone
free_next_kept(h1, ptr) == h1

\* lines 522-524 of free
free_next(h1, ptr) ==
  IF next_block(h1, ptr) # mem_heap_hi(h1) + WSIZE
  THEN set_next_prev_alloc(h1, ptr, 0)
  ELSE h1

\* lines 517-524 of free: the block marked free, the next block told so
free_mark(h, ptr) ==
  free_next(put_free_tags(h, ptr, get_size(h, header_pointer(ptr))), ptr)

\* the pointers free returns on without touching anything
free_ignored(h, ptr) ==
  \/ ptr = 0
  \/ ~in_heap(h, ptr)
  \/ ~aligned(ptr)
  \/ get_alloc(h, header_pointer(ptr)) = 0

\* a free that hands the last block of the region back to the provider
free_trimmed(h, ptr) ==
  IF free_ignored(h, ptr) THEN h
  ELSE IF next_block(h, ptr) = mem_heap_hi(h) + 1
  THEN [put(h, header_pointer(ptr),
            pack(0, get_prev_alloc(h, header_pointer(ptr)), 1))
          EXCEPT !.brk = ptr]
  ELSE coalesce(free_mark(h, ptr), ptr).h

free(h, ptr) ==
  IF free_ignored(h, ptr) THEN h
  ELSE coalesce(free_mark(h, ptr), ptr).h

\* a copy that copies nothing
memcpy_none(h, dst, src, n) == h

\* memcpy(dst, src, n) for n a multiple of 4
memcpy(h, dst, src, n) ==
  [h EXCEPT !.mem = [w \in DOMAIN h.mem |->
      IF w >= dst \div 4 /\ w < (dst + n) \div 4
      THEN h.mem[w - dst \div 4 + src \div 4] ELSE h.mem[w]]]

RECURSIVE pow256(_)
pow256(k) == IF k = 0 THEN 1 ELSE 256 * pow256(k - 1)

\* memset(dst, 0, n): whole words, then the low bytes of the last word
\* (little-endian)
memset0(h, dst, n) ==
  [h EXCEPT !.mem = [w \in DOMAIN h.mem |->
      IF w >= dst \div 4 /\ w < (dst + n) \div 4 THEN 0
      ELSE IF w = (dst + n) \div 4 /\ n % 4 # 0
           THEN (h.mem[w] \div pow256(n % 4)) * pow256(n % 4)
           ELSE h.mem[w]]]

\* lines 569-574 of realloc, after the three puts of the split
shrink_rest(h1, oldptr) ==
  insert_rest(IF next_block(h1, oldptr) # mem_heap_hi(h1) + WSIZE
              THEN set_next_prev_alloc(h1, next_block(h1, oldptr), 0)
              ELSE h1,
              oldptr)

\* the shrink path of realloc (size <= oldsize)
realloc_shrink(h, oldptr, size, oldsize) ==
  IF oldsize - size >= DSIZE
  THEN shrink_rest(split(h, oldptr, size, oldsize - size), oldptr)
  ELSE take_whole(h, oldptr, oldsize)

\* the next block can be folded in: it is free and strictly more than enough
realloc_can_grow(h, oldptr, size, oldsize) ==
  /\ get_alloc(h, header_pointer(next_block(h, oldptr))) = 0
  /\ size - oldsize - get_size(h, header_pointer(next_block(h, oldptr))) < 0

\* lines 593-605 of realloc, after delete(nextblock); asize is both sizes
grow_cut(h1, oldptr, size, asize) ==
  IF asize - size >= DSIZE
  THEN insert_rest(split(h1, oldptr, size, asize - size), oldptr)
  ELSE take_whole(h1, oldptr, asize)

\* the in-place grow path of realloc
realloc_grow(h, oldptr, size, oldsize) ==
  grow_cut(delete(h, next_block(h, oldptr)), oldptr, size,
           get_size(h, header_pointer(next_block(h, oldptr))) + oldsize)

\* realloc that frees the old block although malloc failed
move_copy_freed(r, oldptr, oldsize) ==
  IF r.bp = NULL THEN [h |-> free(r.h, oldptr), bp |-> NULL]
  ELSE [h |-> free(memcpy(r.h, r.bp, oldptr, oldsize), oldptr), bp |-> r.bp]

\* realloc that moves the data and leaves the old block allocated
move_copy_kept(r, oldptr, oldsize) ==
  IF r.bp = NULL THEN [h |-> r.h, bp |-> NULL]
  ELSE [h |-> memcpy(r.h, r.bp, oldptr, oldsize), bp |-> r.bp]

\* lines 612-619 of realloc, r the result of malloc(size)
move_copy(r, oldptr, oldsize) ==
  IF r.bp = NULL THEN [h |-> r.h, bp |-> NULL]
  ELSE [h |-> free(memcpy(r.h, r.bp, oldptr, oldsize), oldptr), bp |-> r.bp]

\* the relocation fallback of realloc; size is already rounded
realloc_move(h, oldptr, size, oldsize) ==
  move_copy(malloc(h, size), oldptr, oldsize)

\* lines 560-619 of realloc
realloc_sized(h, oldptr, size, oldsize) ==
  IF size <= oldsize
  THEN [h |-> realloc_shrink(h, oldptr, size, oldsize), bp |-> oldptr]
  ELSE IF realloc_can_grow(h, oldptr, size, oldsize)
  THEN [h |-> realloc_grow(h, oldptr, size, oldsize), bp |-> oldptr]
  ELSE realloc_move(h, oldptr, size, oldsize)

\* realloc that returns at once for a size of zero
realloc_ready_kept(h, oldptr, usize) ==
  IF usize = 0 THEN [h |-> h, bp |-> NULL]
  ELSE IF oldptr = NULL THEN malloc(h, usize)
  ELSE IF ~aligned(oldptr) THEN [h |-> h, bp |-> NULL]
  ELSE IF ~in_heap(h, oldptr) THEN [h |-> h, bp |-> NULL]
  ELSE realloc_sized(h, oldptr, adjust(usize),
                     get_size(h, header_pointer(oldptr)))

\* realloc that adjusts the size before it looks at the pointer
realloc_ready_rounded(h, oldptr, usize) ==
  IF usize = 0 THEN [h |-> free(h, oldptr), bp |-> NULL]
  ELSE IF oldptr = NULL THEN malloc(h, adjust(usize))
  ELSE IF ~aligned(oldptr) THEN [h |-> h, bp |-> NULL]
  ELSE IF ~in_heap(h, oldptr) THEN [h |-> h, bp |-> NULL]
  ELSE realloc_sized(h, oldptr, adjust(usize),
                     get_size(h, header_pointer(oldptr)))

\* lines 537-619 of realloc, on an initialised allocator
realloc_ready(h, oldptr, usize) ==
  IF usize = 0 THEN [h |-> free(h, oldptr), bp |-> NULL]
  ELSE IF oldptr = NULL THEN malloc(h, usize)
  ELSE IF ~aligned(oldptr) THEN [h |-> h, bp |-> NULL]
  ELSE IF ~in_heap(h, oldptr) THEN [h |-> h, bp |-> NULL]
  ELSE realloc_sized(h, oldptr, adjust(usize),
                     get_size(h, header_pointer(oldptr)))

realloc(h, oldptr, usize) ==
  realloc_ready(IF h.heap_listp = 0 THEN mm_init(h).h ELSE h, oldptr, usize)

\* lines 628-630 of calloc, r the result of malloc(bytes): memset(NULL, 0,
\* bytes) with bytes > 0 is a store through a null pointer; ub marks it
calloc_clear(r, bytes) ==
  IF r.bp = NULL
  THEN [h |-> r.h, bp |-> NULL, ub |-> bytes > 0]
  ELSE [h |-> memset0(r.h, r.bp, bytes), bp |-> r.bp, ub |-> FALSE]

calloc(h, nmemb, size) == calloc_clear(malloc(h, nmemb * size), nmemb * size)

\* ---- the heap as the checker walks it ----------------------------------
\* payload addresses of the blocks from bp up to the epilogue (the loop of
\* mm_checkheap); fuel bounds the walk when a header is damaged
RECURSIVE walk(_, _, _)
walk(h, bp, fuel) ==
  IF fuel = 0 \/ bp > h.brk \/ get_size(h, header_pointer(bp)) = 0 THEN <<>>
  ELSE <<bp>> \o walk(h, next_block(h, bp), fuel - 1)

first_block(h) == next_block(h, h.heap_listp)

Blocks(h) == walk(h, first_block(h), h.brk \div WSIZE)

BlockSet(h) == {Blocks(h)[k] : k \in 1..Len(Blocks(h))}

FreeBlocks(h) == {b \in BlockSet(h) : get_alloc(h, header_pointer(b)) = 0}

\* the entries of bin i from head to tail (the inner loop of mm_checkheap)
RECURSIVE list_from(_, _, _)
list_from(h, ptr, fuel) ==
  IF fuel = 0 \/ ptr = heap_head THEN <<>>
  ELSE <<ptr>> \o list_from(h, next(h, ptr), fuel - 1)

BinList(h, i) == list_from(h, h.bin[i], h.brk \div WSIZE)

\* ---- the client ---------------------------------------------------------
Profiles == {"small", "large"}

\* request sizes of the two workloads
Sizes ==
  IF profile = "large" THEN {8, 228, 244, 4068, 4100, 4116} ELSE {8, 100, 300}

\* sizes passed to realloc together with a pointer the client holds
ReallocSizes == IF profile = "large" THEN {8} ELSE {0, 8, 100, 300}

CallocArgs ==
  IF profile = "large" THEN {<<0, 8>>, <<1, 4100>>} ELSE {<<0, 8>>, <<1, 13>>}

OpsMax == IF profile = "large" THEN MaxOpsLarge ELSE MaxOps

Step ==
  /\ status = "ok"
  /\ ops < OpsMax
  /\ ops' = ops + 1
  /\ profile' = profile

\* a pointer into the first block that is not 8-aligned, and one past the region
Misaligned == heap_listp + WSIZE + HSIZE

Outside == brk + WSIZE

Held == DOMAIN live

None == [p \in {} |-> 0]

Hold(p, u) == [q \in Held \cup {p} |-> IF q = p THEN u ELSE live[q]]

Drop(p) == [q \in Held \ {p} |-> live[q]]

Install(h) ==
  /\ mem' = h.mem
  /\ bin' = h.bin
  /\ brk' = h.brk
  /\ heap_listp' = h.heap_listp
  /\ tail_block' = tail_block

Start(h) ==
  /\ mem = h.mem
  /\ bin = h.bin
  /\ brk = h.brk
  /\ heap_listp = h.heap_listp
  /\ tail_block = NULL

Init ==
  /\ profile \in Profiles
  /\ Start(mm_init(Empty).h)
  /\ live = None
  /\ call = [op |-> "mm_init", ptr |-> NULL, size |-> 0, ret |-> NULL, dup |-> FALSE]
  /\ status = "ok"
  /\ ops = 0

MallocDone(u, r) ==
  /\ Install(r.h)
  /\ live' = IF r.bp # NULL THEN Hold(r.bp, u) ELSE live
  /\ call' = [op |-> "malloc", ptr |-> NULL, size |-> u, ret |-> r.bp,
              dup |-> r.bp \in Held]
  /\ status' = status

Malloc(u) == Step /\ MallocDone(u, malloc(Heap, u))

Free(p) ==
  /\ Step
  /\ Install(free(Heap, p))
  /\ live' = Drop(p)
  /\ call' = [op |-> "free", ptr |-> p, size |-> 0, ret |-> NULL, dup |-> FALSE]
  /\ status' = status

ReallocDone(p, u, r) ==
  /\ Install(r.h)
  /\ live' = IF p \in Held
             THEN IF u = 0 THEN Drop(p)
                  ELSE IF r.bp = NULL THEN live
                  ELSE [q \in (Held \ {p}) \cup {r.bp} |->
                          IF q = r.bp THEN u ELSE live[q]]
             ELSE IF r.bp # NULL THEN Hold(r.bp, u) ELSE live
  /\ call' = [op |-> "realloc", ptr |-> p, size |-> u, ret |-> r.bp,
              dup |-> r.bp \in Held \ {p}]
  /\ status' = status

Realloc(p, u) == Step /\ ReallocDone(p, u, realloc(Heap, p, u))

CallocDone(bytes, r) ==
  /\ Install(r.h)
  /\ live' = IF r.bp # NULL THEN Hold(r.bp, bytes) ELSE live
  /\ call' = [op |-> "calloc", ptr |-> NULL, size |-> bytes, ret |-> r.bp,
              dup |-> r.bp \in Held]
  /\ status' = IF r.ub THEN "segv" ELSE "ok"

Calloc(n, s) == Step /\ CallocDone(n * s, calloc(Heap, n, s))

Next ==
  \/ \E u \in Sizes \cup {0} : Malloc(u)
  \/ \E p \in Held \cup FreeBlocks(Heap) \cup {NULL, Misaligned, Outside} : Free(p)
  \/ \E p \in Held : \E u \in ReallocSizes : Realloc(p, u)
  \/ \E u \in {0, 12} : Realloc(NULL, u)
  \/ \E p \in {Misaligned, Outside} : \E u \in {0, 8} : Realloc(p, u)
  \/ \E a \in CallocArgs : Calloc(a[1], a[2])

Spec == Init /\ [][Next]_vars

\* free(p) for p one past the last byte of the region: in_heap accepts it,
\* the epilogue header reads as an allocated block of size 0, lines 517-524
\* run, and coalesce then reads the word at p, outside the region, and
\* indexes the bin table with (0 - DSIZE) / WSIZE.  What follows is not
\* defined; status records that and no further call is made.
FreeAtBreak ==
  /\ Step
  /\ ~free_ignored(Heap, brk)
  /\ Install(free_mark(Heap, brk))
  /\ live' = live
  /\ call' = [op |-> "free", ptr |-> brk, size |-> 0, ret |-> NULL, dup |-> FALSE]
  /\ status' = "undefined"

\* realloc(p, u), u > 0, for p one past the last byte of the region: p is
\* 8-aligned and in_heap accepts it, the epilogue header gives oldsize 0 and
\* a next block that is allocated, so malloc(size) is called, memcpy copies
\* 0 bytes and free(p) runs as in FreeAtBreak.  r is the result of malloc;
\* the case where malloc did not move the break is modelled.
ReallocAtBreakDone(u, r) ==
  /\ r.bp # NULL
  /\ r.h.brk = brk
  /\ ~free_ignored(r.h, brk)
  /\ Install(free_mark(memcpy(r.h, r.bp, brk, 0), brk))
  /\ live' = Hold(r.bp, u)
  /\ call' = [op |-> "realloc", ptr |-> brk, size |-> u, ret |-> r.bp,
              dup |-> r.bp \in Held]
  /\ status' = "undefined"

ReallocAtBreak(u) ==
  /\ Step
  /\ aligned(brk) /\ in_heap(Heap, brk)
  /\ ReallocAtBreakDone(u, malloc(Heap, adjust(u)))

NextEdge ==
  \/ Next
  \/ FreeAtBreak
  \/ \E u \in {8, 100} : ReallocAtBreak(u)

SpecEdge == Init /\ [][NextEdge]_vars

\* ---- the client's data ---------------------------------------------------
\* The client stores data in the block it has just been given: every word
\* of the bytes it asked for gets a value that names the word, and that no
\* header, footer or link of the model's heaps can have.
Mark == 1048576

Stored(p, w) == w >= p \div 4 /\ w < p \div 4 + (live[p] + 3) \div 4

Fill(p) ==
  /\ Step
  /\ call.op # "fill"
  /\ mem' = [w \in DOMAIN mem |-> IF Stored(p, w) THEN Mark + w ELSE mem[w]]
  /\ UNCHANGED <<bin, brk, heap_listp, tail_block, live>>
  /\ call' = [op |-> "fill", ptr |-> p, size |-> live[p], ret |-> NULL,
              dup |-> FALSE]
  /\ status' = status

NextData ==
  \/ Next
  \/ \E p \in Held \cap {call.ret} : Fill(p)

SpecData == Init /\ [][NextData]_vars

\* ---- allocate followed at once by release -------------------------------
\* p = malloc(u); free(p) as one step; r is the result of malloc
RoundTripDone(u, r) ==
  /\ r.bp # NULL
  /\ Install(free(r.h, r.bp))
  /\ live' = live
  /\ call' = [op |-> "roundtrip", ptr |-> r.bp, size |-> u, ret |-> NULL,
              dup |-> r.bp \in Held]
  /\ status' = status

RoundTrip(u) == Step /\ RoundTripDone(u, malloc(Heap, u))

NextTrip ==
  \/ Next
  \/ \E u \in Sizes : RoundTrip(u)

SpecTrip == Init /\ [][NextTrip]_vars

\* ---- what the claims speak about ----------------------------------------
\* bytes of the block of p after its header
Usable(p) == get_size(Heap, header_pointer(p)) - HSIZE

\* the bytes the client may use at p: what it asked for, and the whole payload
Extent(p) == max(live[p], Usable(p))

IsFree(b) == get_alloc(Heap, header_pointer(b)) = 0

SizeOf(b) == get_size(Heap, header_pointer(b))

\* the last call handed out a block as allocate does
Allocated ==
  /\ call.op \in {"malloc", "calloc"} \/ (call.op = "realloc" /\ call.ptr = NULL)
  /\ call.ret # NULL

RoundUp8(x) == ((x + 7) \div 8) * 8

\* the rounded size a of a request u, as the specification states it
Rounded(u) == IF u <= DSIZE - HSIZE THEN DSIZE ELSE RoundUp8(u + HSIZE)

\* where the walk over the blocks stops
WalkEnd ==
  IF Blocks(Heap) = <<>> THEN first_block(Heap)
  ELSE next_block(Heap, Blocks(Heap)[Len(Blocks(Heap))])

RECURSIVE SumSizes(_, _)
SumSizes(B, k) == IF k = 0 THEN 0 ELSE SizeOf(B[k]) + SumSizes(B, k - 1)

RECURSIVE Pow2(_)
Pow2(j) == IF j = 0 THEN 1 ELSE 2 * Pow2(j - 1)

\* index of the last exact-fit class, and the class mapping of the
\* specification: (s - M)/8 up to T, then ceil(log2(s/T)) classes further,
\* capped at the last class
LastExact == (MSIZE - DSIZE) \div WSIZE

ClassOf(sz) ==
  IF sz <= MSIZE THEN (sz - DSIZE) \div WSIZE
  ELSE min(BIN - 1,
           LastExact + (CHOOSE j \in 1..24 :
                          MSIZE * Pow2(j - 1) < sz /\ sz <= MSIZE * Pow2(j)))

\* all bin lists, as pairs <<bin index, block>>
Linked ==
  UNION {{<<i, BinList(Heap, i)[k]>> : k \in 1..Len(BinList(Heap, i))} :
           i \in 0..(BIN - 1)}

LinkCount == LET n(i) == Len(BinList(Heap, i))
                 RECURSIVE tot(_)
                 tot(i) == IF i < 0 THEN 0 ELSE n(i) + tot(i - 1)
             IN tot(BIN - 1)

\* ---- C1 ------------------------------------------------------------------
\* C1: no two blocks the client holds overlap: their byte ranges are
\* disjoint, and no allocating call returns a pointer that is still held.
C1_NoOverlap ==
  /\ \A p, q \in Held : p # q => (p + Extent(p) <= q \/ q + Extent(q) <= p)
  /\ ~call.dup

C1_Witness ==
  /\ Cardinality(Held) >= 3
  /\ call.op = "realloc" /\ call.ptr # NULL /\ call.ret # NULL

\* ---- C2 ------------------------------------------------------------------
\* C2: a successful allocate(u), u > 0, returns a block of size s with
\* a <= s < a + M for the rounded size a of u, so its payload s - 4 holds u.
C2_SizeRounding ==
  Allocated /\ call.size > 0 =>
    /\ Rounded(call.size) <= SizeOf(call.ret)
    /\ SizeOf(call.ret) < Rounded(call.size) + DSIZE
    /\ SizeOf(call.ret) - HSIZE >= call.size

\* allocate took a whole free block larger than the rounded size
C2_Witness ==
  /\ Allocated /\ call.op = "malloc" /\ call.size > 0
  /\ SizeOf(call.ret) > Rounded(call.size)

\* ---- C3 ------------------------------------------------------------------
\* C3: every pointer returned and still allocated is 8-aligned and lies
\* after the bin table, padding and prologue and before the end of the region.
C3_AlignedInside ==
  \A p \in Held \cup (IF call.ret # NULL THEN {call.ret} ELSE {}) :
    /\ p % 8 = 0
    /\ p >= mem_heap_lo + BIN * WSIZE + DSIZE
    /\ p < brk

\* reallocate moved a block while another one stays allocated
C3_Witness ==
  /\ call.op = "realloc" /\ call.ptr # NULL
  /\ call.ret # NULL /\ call.ret # call.ptr
  /\ Cardinality(Held) >= 2

\* ---- C4 ------------------------------------------------------------------
\* C4: after every public call no two physically adjacent blocks are both
\* free.
C4_NoAdjacentFree ==
  \A k \in 1..(Len(Blocks(Heap)) - 1) :
    ~(IsFree(Blocks(Heap)[k]) /\ IsFree(Blocks(Heap)[k + 1]))

\* ---- C5 ------------------------------------------------------------------
\* C5: the P bit of every block, and of the epilogue header, equals the A
\* bit of the block before it; the first block follows the prologue.
C5_PrevAllocBits ==
  /\ \A k \in 1..Len(Blocks(Heap)) :
       get_prev_alloc(Heap, header_pointer(Blocks(Heap)[k]))
         = IF k = 1 THEN get_alloc(Heap, header_pointer(heap_listp))
           ELSE get_alloc(Heap, header_pointer(Blocks(Heap)[k - 1]))
  /\ get_prev_alloc(Heap, header_pointer(WalkEnd))
       = IF Blocks(Heap) = <<>> THEN get_alloc(Heap, header_pointer(heap_listp))
         ELSE get_alloc(Heap, header_pointer(Blocks(Heap)[Len(Blocks(Heap))]))

\* release left a free block between two allocated ones
C5_Witness ==
  /\ call.op = "free"
  /\ \E k \in 2..(Len(Blocks(Heap)) - 1) :
       /\ IsFree(Blocks(Heap)[k])
       /\ ~IsFree(Blocks(Heap)[k - 1])
       /\ ~IsFree(Blocks(Heap)[k + 1])

\* ---- C6 ------------------------------------------------------------------
\* C6: after every public call the footer word of every free block equals
\* its header word.
C6_HeaderFooter ==
  \A b \in FreeBlocks(Heap) :
    get(Heap, footer_pointer(Heap, b)) = get(Heap, header_pointer(b))

\* ---- C7 ------------------------------------------------------------------
\* C7: a block is linked iff it is free, it is linked once, in the bin the
\* class mapping gives for its size, and the bins hold as many entries as
\* the heap has free blocks.
C7_BinMembership ==
  /\ {e[2] : e \in Linked} = FreeBlocks(Heap)
  /\ \A e \in Linked : e[1] = ClassOf(SizeOf(e[2]))
  /\ LinkCount = Cardinality(FreeBlocks(Heap))

\* ---- C8 ------------------------------------------------------------------
\* C8: an exact-fit list holds blocks of its class's size only, a
\* power-of-two list holds sizes of its class's range (T*2^(j-1), T*2^j]
\* (the last class has no upper end), sorted by non-decreasing size.
C8_BinContents ==
  \A i \in 0..(BIN - 1) :
    /\ \A k \in 1..Len(BinList(Heap, i)) :
         IF i <= LastExact
         THEN SizeOf(BinList(Heap, i)[k]) = DSIZE + WSIZE * i
         ELSE /\ SizeOf(BinList(Heap, i)[k]) > MSIZE * Pow2(i - LastExact - 1)
              /\ i < BIN - 1 =>
                   SizeOf(BinList(Heap, i)[k]) <= MSIZE * Pow2(i - LastExact)
    /\ \A k \in 1..(Len(BinList(Heap, i)) - 1) :
         SizeOf(BinList(Heap, i)[k]) <= SizeOf(BinList(Heap, i)[k + 1])

\* ---- C9 ------------------------------------------------------------------
\* C9: every block size is a multiple of 8 and at least M, the walk from
\* the first block ends at the epilogue header at the end of the region,
\* and the sizes add up to the region without the initial overhead.
C9_Tiling ==
  /\ \A k \in 1..Len(Blocks(Heap)) :
       SizeOf(Blocks(Heap)[k]) % 8 = 0 /\ SizeOf(Blocks(Heap)[k]) >= DSIZE
  /\ WalkEnd = brk
  /\ get(Heap, header_pointer(brk)) \div 8 = 0
  /\ get_alloc(Heap, header_pointer(brk)) = 1
  /\ SumSizes(Blocks(Heap), Len(Blocks(Heap))) = brk - mem_heap_lo - InitBytes

\* the region was extended and holds at least four blocks
C9_Witness ==
  /\ brk > InitBytes + CHUNKSIZE
  /\ Len(Blocks(Heap)) >= 4

\* ---- C10 -----------------------------------------------------------------
\* the pointers release is to ignore, judged on the state before the call
Ignorable(p) ==
  \/ p = NULL
  \/ p < mem_heap_lo
  \/ p >= brk
  \/ p % 8 # 0
  \/ get_alloc(Heap, header_pointer(p)) = 0

\* C10: release(p) changes nothing when p is null, outside the region
\* [lo, hi), not 8-aligned, or names a block whose header says free.
C10_ReleaseIgnores ==
  [][call'.op = "free" /\ ops' = ops + 1 /\ Ignorable(call'.ptr)
       => UNCHANGED <<mem, bin, brk, heap_listp>>]_vars

\* ---- C11 -----------------------------------------------------------------
\* C11: allocate(0) returns null and changes neither the region bounds nor
\* any block or bin.
C11_AllocateZero ==
  [][call'.op = "malloc" /\ call'.size = 0
       => /\ call'.ret = NULL
          /\ UNCHANGED <<mem, bin, brk, heap_listp>>
          /\ live' = live]_vars

\* allocate(0) was called while the client holds a block
C11_Witness ==
  /\ call.op = "malloc" /\ call.size = 0
  /\ Cardinality(Held) >= 1

\* ---- C12 -----------------------------------------------------------------
\* bytes malloc asks extend_heap for when no block of asize bytes fits
ExtendBytes(asize) ==
  WSIZE * ((max(asize, CHUNKSIZE) \div WSIZE)
           + ((max(asize, CHUNKSIZE) \div WSIZE) % 2))

\* no free block fits a request of u bytes and the provider refuses to grow
NoRoom(u) ==
  /\ find_fit(Heap, adjust(u)) = NULL
  /\ ~mem_sbrk_ok(Heap, ExtendBytes(adjust(u)))

\* C12: when no free block fits and the region cannot grow, allocate(u)
\* returns null and no block, bin or region bound changes.
C12_OutOfMemory ==
  [][call'.op = "malloc" /\ call'.size > 0 /\ NoRoom(call'.size)
       => /\ call'.ret = NULL
          /\ UNCHANGED <<mem, bin, brk, heap_listp>>
          /\ live' = live]_vars

\* an allocate(u), u > 0, that returned null
C12_Witness ==
  /\ call.op = "malloc" /\ call.size > 0 /\ call.ret = NULL
  /\ FreeBlocks(Heap) # {}

\* ---- C13 -----------------------------------------------------------------
\* reallocate(p, u) can be served neither in place nor by a fresh block
ReallocFails(p, u) ==
  /\ adjust(u) > SizeOf(p)
  /\ ~realloc_can_grow(Heap, p, adjust(u), SizeOf(p))
  /\ malloc(Heap, adjust(u)).bp = NULL

\* C13: when reallocate(p, u), u > 0, cannot be served in place and the
\* fresh allocation fails, it returns null and the block of p, every other
\* block and every bin are as before.
C13_ReallocOutOfMemory ==
  [][(/\ call'.op = "realloc" /\ call'.size > 0 /\ call'.ptr \in Held
      /\ ReallocFails(call'.ptr, call'.size))
       => /\ call'.ret = NULL
          /\ UNCHANGED <<mem, bin, brk, heap_listp>>
          /\ live' = live]_vars

\* a reallocate of a held block that returned null; the block is still held
C13_Witness ==
  /\ call.op = "realloc" /\ call.size > 0 /\ call.ret = NULL
  /\ call.ptr \in Held
  /\ ~IsFree(call.ptr)

\* ---- C14 -----------------------------------------------------------------
\* C14: zeroed-allocate(n, s) returns null when the allocation of n*s bytes
\* fails, and writes to no memory.
C14_ZeroedAllocateFails ==
  [][call'.op = "calloc" /\ malloc(Heap, call'.size).bp = NULL
       => /\ call'.ret = NULL
          /\ status' = status
          /\ UNCHANGED <<mem, bin, brk, heap_listp>>]_vars

\* ---- C15 -----------------------------------------------------------------
\* C15: reallocate(p, u), u > 0, with a non-null p that is misaligned or
\* outside the region [lo, hi) returns null and changes no block, bin or
\* region bound.
C15_ReallocateInvalid ==
  [][(/\ call'.op = "realloc" /\ call'.size > 0 /\ call'.ptr # NULL
      /\ \/ call'.ptr % 8 # 0
         \/ call'.ptr < mem_heap_lo
         \/ call'.ptr >= brk)
       => /\ call'.ret = NULL
          /\ UNCHANGED <<mem, bin, brk, heap_listp>>]_vars

\* ---- C16 -----------------------------------------------------------------
\* the allocator is left as the heap value h says
LeftAs(h) ==
  /\ mem' = h.mem
  /\ bin' = h.bin
  /\ brk' = h.brk
  /\ heap_listp' = h.heap_listp

\* C16: reallocate(p, 0) returns null and leaves the allocator in the state
\* release(p) produces from the same state, for allocated, null and invalid p.
C16_ReallocateZero ==
  [][call'.op = "realloc" /\ call'.size = 0
       => /\ call'.ret = NULL
          /\ LeftAs(free(Heap, call'.ptr))]_vars

\* reallocate(p, 0) released a block the client held
C16_Witness ==
  /\ call.op = "realloc" /\ call.size = 0
  /\ call.ptr # NULL /\ call.ptr % 8 = 0 /\ call.ptr < brk
  /\ call.ptr \notin Held
  /\ Cardinality(Held) >= 1

\* ---- C17 -----------------------------------------------------------------
\* C17: reallocate(null, u) returns the pointer allocate(u) returns from the
\* same state and leaves the allocator in the same state, u = 0 included.
C17_ReallocateNull ==
  [][call'.op = "realloc" /\ call'.ptr = NULL
       => /\ call'.ret = malloc(Heap, call'.size).bp
          /\ LeftAs(malloc(Heap, call'.size).h)]_vars

\* reallocate(null, u) handed out a block next to others
C17_Witness ==
  /\ call.op = "realloc" /\ call.ptr = NULL /\ call.size > 0
  /\ call.ret # NULL
  /\ Cardinality(Held) >= 2

\* ---- C18 -----------------------------------------------------------------
\* bytes of the old block reallocate(p, u) has to keep: min(u, old payload)
Kept(p, u) == min(u, SizeOf(p) - HSIZE)

\* the first k bytes at q after the step are the first k bytes at p before it
SameBytes(q, p, k) ==
  /\ \A j \in 0..(k \div 4 - 1) : mem'[q \div 4 + j] = mem[p \div 4 + j]
  /\ k % 4 # 0 =>
       mem'[q \div 4 + k \div 4] % pow256(k % 4)
         = mem[p \div 4 + k \div 4] % pow256(k % 4)

\* C18: after a successful reallocate(p, u) of an allocated block, in
\* place or by relocation, the first min(u, old payload size) bytes at the
\* returned pointer are the bytes that were at p before the call.
C18_CopyPreserved ==
  [][(/\ call'.op = "realloc" /\ call'.size > 0
      /\ call'.ptr \in Held /\ call'.ret # NULL)
       => SameBytes(call'.ret, call'.ptr, Kept(call'.ptr, call'.size))]_vars

\* a block the client had filled was moved, and its data is at the new place
C18_Witness ==
  /\ call.op = "realloc" /\ call.ptr # NULL
  /\ call.ret # NULL /\ call.ret # call.ptr
  /\ mem[call.ret \div 4] = Mark + call.ptr \div 4

\* ---- C19 -----------------------------------------------------------------
RECURSIVE SumFree(_, _)
SumFree(B, k) ==
  IF k = 0 THEN 0
  ELSE (IF IsFree(B[k]) THEN SizeOf(B[k]) ELSE 0) + SumFree(B, k - 1)

\* total size of the free blocks
FreeBytes == SumFree(Blocks(Heap), Len(Blocks(Heap)))

\* the invariants of the heap: coalescing, P bits, footers, bins, tiling
HeapInvariants ==
  /\ C4_NoAdjacentFree
  /\ C5_PrevAllocBits
  /\ C6_HeaderFooter
  /\ C7_BinMembership
  /\ C8_BinContents
  /\ C9_Tiling

\* C19: p = allocate(u), u > 0, followed at once by release(p) leaves the
\* invariants holding and the total of free bytes what it was before.
C19_RoundTrip ==
  [][call'.op = "roundtrip"
       => /\ HeapInvariants => HeapInvariants'
          /\ FreeBytes' = FreeBytes]_vars

\* ---- C20 -----------------------------------------------------------------
\* the block at b is free in heap h, has the given size and is an entry of
\* the bin list of its class
FreeLinked(h, b, size) ==
  /\ get_alloc(h, header_pointer(b)) = 0
  /\ get_size(h, header_pointer(b)) = size
  /\ \E k \in 1..Len(BinList(h, ClassOf(size))) :
       BinList(h, ClassOf(size))[k] = b

\* what the shrink path leaves of the block at p of size o, asked for a bytes
Shrunk(h, p, o, a) ==
  IF o - a >= DSIZE
  THEN /\ get_size(h, header_pointer(p)) = a
       /\ get_alloc(h, header_pointer(p)) = 1
       /\ FreeLinked(h, p + a, o - a)
  ELSE /\ get_size(h, header_pointer(p)) = o
       /\ get_alloc(h, header_pointer(p)) = 1

\* C20: reallocate of an allocated block of size o with rounded request
\* a <= o returns p; if o - a >= M the block has size a and a free block of
\* size o - a, linked in its bin, starts right after it, else it keeps size o.
C20_ShrinkPath ==
  [][(/\ call'.op = "realloc" /\ call'.size > 0 /\ call'.ptr \in Held
      /\ Rounded(call'.size) <= SizeOf(call'.ptr))
       => /\ call'.ret = call'.ptr
          /\ Shrunk(Heap', call'.ptr, SizeOf(call'.ptr),
                    Rounded(call'.size))]_vars

\* ---- C21 -----------------------------------------------------------------
\* the block that follows the allocated block at p
NextOf(p) == next_block(Heap, p)

\* the block after p is free and, with p's block, gives at least a bytes
CanFold(p, a) ==
  /\ NextOf(p) \in FreeBlocks(Heap)
  /\ SizeOf(p) + SizeOf(NextOf(p)) >= a

\* C21: reallocate of an allocated block of size o with rounded request
\* a > o, whose next block is free with o + next.size >= a (equality
\* included), folds the next block in and returns p; the break stays.
C21_GrowInPlace ==
  [][(/\ call'.op = "realloc" /\ call'.size > 0 /\ call'.ptr \in Held
      /\ Rounded(call'.size) > SizeOf(call'.ptr)
      /\ CanFold(call'.ptr, Rounded(call'.size)))
       => /\ call'.ret = call'.ptr
          /\ brk' = brk
          /\ get_alloc(Heap', header_pointer(call'.ptr)) = 1
          /\ get_size(Heap', header_pointer(call'.ptr)) >= Rounded(call'.size)
          /\ NextOf(call'.ptr) \notin FreeBlocks(Heap')]_vars

\* ---- C22 -----------------------------------------------------------------
\* the address p lies in the payload of a free block of heap h
InFree(h, p) ==
  \E b \in FreeBlocks(h) : b <= p /\ p < b + get_size(h, header_pointer(b))

\* realloc(p, u) takes neither the shrink path nor the in-place grow path
Relocates(p, u) ==
  /\ Rounded(u) > SizeOf(p)
  /\ ~realloc_can_grow(Heap, p, Rounded(u), SizeOf(p))

\* C22: a reallocate(p, u) that succeeds and is served neither by the shrink
\* path nor by the in-place grow path returns a pointer other than p to an
\* allocated block, and p then lies in a free block.
C22_Relocation ==
  [][(/\ call'.op = "realloc" /\ call'.size > 0 /\ call'.ptr \in Held
      /\ call'.ret # NULL
      /\ Relocates(call'.ptr, call'.size))
       => /\ call'.ret # call'.ptr
          /\ call'.ret \in BlockSet(Heap') \ FreeBlocks(Heap')
          /\ InFree(Heap', call'.ptr)]_vars

\* a block was moved and its old place was merged with the free block before
C22_Witness ==
  /\ call.op = "realloc" /\ call.size > 0
  /\ call.ret # NULL /\ call.ptr # NULL /\ call.ret # call.ptr
  /\ \E b \in FreeBlocks(Heap) : b < call.ptr /\ call.ptr < b + SizeOf(b)

\* ---- C23 -----------------------------------------------------------------
\* the allocated blocks of heap h
AllocatedBlocks(h) == BlockSet(h) \ FreeBlocks(h)

\* the word indices of the payload of the block at b, of the given size
PayloadWords(b, size) == (b \div 4)..((b + size - HSIZE) \div 4 - 1)

\* the allocated block at b keeps address, size, A bit and payload from g to h
Stable(g, h, b) ==
  /\ b \in AllocatedBlocks(h)
  /\ get_size(h, header_pointer(b)) = get_size(g, header_pointer(b))
  /\ \A w \in PayloadWords(b, get_size(g, header_pointer(b))) :
       h.mem[w] = g.mem[w]

\* C23: a public call changes neither the address, the size, the A bit nor
\* the payload bytes of an allocated block other than the one its pointer
\* argument names (so links and footers are written in free blocks only).
C23_AddressStability ==
  [][\A b \in AllocatedBlocks(Heap) \ {call'.ptr} : Stable(Heap, Heap', b)]_vars

\* ---- C24 -----------------------------------------------------------------
\* calls of malloc and free only
NextAllocFree ==
  \/ \E u \in Sizes \cup {0} : Malloc(u)
  \/ \E p \in Held \cup FreeBlocks(Heap) \cup {NULL, Misaligned, Outside} : Free(p)

SpecAllocFree == Init /\ [][NextAllocFree]_vars

\* lines 646-667 of mm_checkheap: the block is aligned and the P bit of the
\* next block is its A bit
check_block(h, ptr) ==
  /\ aligned(ptr)
  /\ get_prev_alloc(h, header_pointer(next_block(h, ptr)))
       = get_alloc(h, header_pointer(ptr))

\* lines 680-699 of mm_checkheap for the entry ptr of bin i
check_entry(h, i, ptr) ==
  /\ next(h, ptr) # heap_head => prev(h, next(h, ptr)) = ptr
  /\ prev(h, ptr) # heap_head => next(h, prev(h, ptr)) = ptr
  /\ (next(h, ptr) # heap_head /\ i < 31)
       => get_size(h, header_pointer(ptr))
            = get_size(h, header_pointer(next(h, ptr)))

\* lines 676-702 of mm_checkheap
check_bins(h) ==
  \A i \in 0..(BIN - 1) :
    \A k \in 1..Len(BinList(h, i)) : check_entry(h, i, BinList(h, i)[k])

RECURSIVE count_entries(_, _)
count_entries(h, i) ==
  IF i < 0 THEN 0 ELSE Len(BinList(h, i)) + count_entries(h, i - 1)

\* mm_checkheap(1) returns 0: none of its checks calls exit
mm_checkheap(h) ==
  /\ get(h, h.heap_listp - HSIZE) = pack(WSIZE, 1, 1)
  /\ \A ptr \in {h.heap_listp} \cup BlockSet(h) : check_block(h, ptr)
  /\ check_bins(h)
  /\ Cardinality(FreeBlocks(h)) = count_entries(h, BIN - 1)

\* the number of maximal runs of physically contiguous free blocks
FreeRuns ==
  Cardinality({k \in 1..Len(Blocks(Heap)) :
                 /\ IsFree(Blocks(Heap)[k])
                 /\ k > 1 => ~IsFree(Blocks(Heap)[k - 1])})

\* C24: after any sequence of allocate and release calls that follows
\* initialization the consistency conditions hold (the invariants of the
\* heap, and the checker finds no error) and the number of blocks linked in
\* all bins is the number of maximal runs of free space.
C24_AllocFreeConsistent ==
  /\ HeapInvariants
  /\ mm_checkheap(Heap)
  /\ LinkCount = FreeRuns

\* ---- C25 -----------------------------------------------------------------
\* the allocator before any call: the statics are zero, the region is empty
InitCold ==
  /\ profile \in Profiles
  /\ Start(Empty)
  /\ live = None
  /\ call = [op |-> "start", ptr |-> NULL, size |-> 0, ret |-> NULL, dup |-> FALSE]
  /\ status = "ok"
  /\ ops = 0

\* a call that returns at once and leaves the allocator as it was
ColdReturn(op, p, u) ==
  /\ UNCHANGED <<mem, bin, brk, heap_listp, tail_block, live>>
  /\ call' = [op |-> op, ptr |-> p, size |-> u, ret |-> NULL, dup |-> FALSE]

\* malloc(u) with heap_listp = 0: a size of 0 returns NULL (line 425); any
\* other goes to find_fit, which reads bin[i] through the null pointer bin
ColdMalloc(u) ==
  /\ Step
  /\ ColdReturn("malloc", NULL, u)
  /\ status' = IF u > 0 THEN "segv" ELSE "ok"

\* free(p) with heap_listp = 0: NULL returns at line 503, and a pointer
\* above the empty region fails in_heap and returns at line 507
ColdFree(p) ==
  /\ Step
  /\ p = 0 \/ ~in_heap(Heap, p)
  /\ ColdReturn("free", p, 0)
  /\ status' = "ok"

\* calloc(n, s) with heap_listp = 0 is malloc(n * s), then memset
ColdCalloc(n, s) ==
  /\ Step
  /\ ColdReturn("calloc", NULL, n * s)
  /\ status' = IF n * s > 0 THEN "segv" ELSE "ok"

\* the first call finds the allocator uninitialised; realloc alone calls
\* mm_init (lines 532-534)
NextCold ==
  \/ heap_listp = 0 /\ \E u \in Sizes : ColdMalloc(u)
  \/ heap_listp = 0 /\ \E p \in {NULL, WSIZE} : ColdFree(p)
  \/ heap_listp = 0 /\ \E a \in CallocArgs : ColdCalloc(a[1], a[2])
  \/ heap_listp = 0 /\ \E u \in {0, 12} : Realloc(NULL, u)
  \/ heap_listp # 0 /\ Next

SpecCold == InitCold /\ [][NextCold]_vars

\* the heap that the call c leaves when made right after mm_init
WarmHeap(c) ==
  IF c.op = "malloc" THEN malloc(mm_init(Empty).h, c.size).h
  ELSE IF c.op = "free" THEN free(mm_init(Empty).h, c.ptr)
  ELSE IF c.op = "realloc" THEN realloc(mm_init(Empty).h, c.ptr, c.size).h
  ELSE calloc(mm_init(Empty).h, 1, c.size).h

\* C25: the first public call made on an uninitialised allocator, whichever
\* it is, first builds the sentinels, the bins and the initial free block
\* and then does what it does on a freshly initialised allocator.
C25_LazyInit ==
  [][heap_listp = 0
       => /\ status' = "ok"
          /\ heap_listp' # 0
          /\ LeftAs(WarmHeap(call'))]_vars

\* ---- C26 -----------------------------------------------------------------
\* C26: across every step of every sequence of public calls the upper bound
\* of the region never decreases, and its lower bound never changes.
C26_MonotoneGrowth ==
  [][/\ mem_heap_hi(Heap') >= mem_heap_hi(Heap)
     /\ mem_heap_lo' = mem_heap_lo]_vars

\* the region has grown twice, and a release has just freed its last block
C26_Witness ==
  /\ call.op = "free" /\ call.ptr \in FreeBlocks(Heap)
  /\ call.ptr + SizeOf(call.ptr) = brk
  /\ brk > InitBytes + 2 * CHUNKSIZE

\* ---- C27 -----------------------------------------------------------------
\* the blocks linked in some bin
LinkedBlocks == {e[2] : e \in Linked}

\* the blocks of L of size at least a
Fits(L, a) == {b \in L : SizeOf(b) >= a}

\* rounded sizes to search for: those of the requests, and the sizes around
\* those of the linked blocks L
FitSizes(L) ==
  {DSIZE, 104, 264, 304, 4104}
    \cup {SizeOf(b) : b \in L}
    \cup {SizeOf(b) + WSIZE : b \in L}
    \cup {max(DSIZE, SizeOf(b) - WSIZE) : b \in L}

\* r is null when no block of F, the blocks that fit, exists, else a smallest
BestFit(F, r) ==
  IF F = {} THEN r = NULL
  ELSE r \in F /\ \A c \in F : SizeOf(r) <= SizeOf(c)

AllBestFit(L) ==
  \A a \in FitSizes(L) : BestFit(Fits(L, a), find_fit(Heap, a))

\* C27: in every reachable state and for every rounded size a, find_fit(a)
\* is null if and only if no linked free block has size >= a, and else is
\* a linked free block of the least size among those of size >= a.
C27_BestFit == AllBestFit(LinkedBlocks)

\* a list of a power-of-two class whose head is too small for a, while the
\* search for a still finds a block
C27_Witness ==
  \E a \in FitSizes(LinkedBlocks) :
    /\ a > MSIZE
    /\ bin[find_fit_index(a)] # heap_head
    /\ SizeOf(bin[find_fit_index(a)]) < a
    /\ find_fit(Heap, a) # NULL

\* ---- C28 -----------------------------------------------------------------
\* the linked blocks of heap h with their sizes
Entries(h) ==
  UNION {{<<BinList(h, i)[k], get_size(h, header_pointer(BinList(h, i)[k]))>> :
            k \in 1..Len(BinList(h, i))} : i \in 0..(BIN - 1)}

\* the entry b of heap h was inserted by the step from heap g
Inserted(g, h, b) == <<b, get_size(h, header_pointer(b))>> \notin Entries(g)

\* in the list L of heap h an entry inserted since g never comes after an
\* entry of the same size that was linked in g already
NewestFirst(g, h, L) ==
  \A j \in 1..Len(L) : \A k \in (j + 1)..Len(L) :
    (/\ get_size(h, header_pointer(L[j])) = get_size(h, header_pointer(L[k]))
     /\ Inserted(g, h, L[k]))
      => Inserted(g, h, L[j])

\* C28: among the free blocks of one size linked in one class the most
\* recently inserted comes first in the list, and it is the one find_fit
\* returns for that size.
C28_LifoTieBreak ==
  [][/\ \A i \in 0..(BIN - 1) : NewestFirst(Heap, Heap', BinList(Heap', i))
     /\ \A e \in Entries(Heap') \ Entries(Heap) :
          Inserted(Heap, Heap', find_fit(Heap', e[2]))]_vars

\* the block a call has just inserted heads a list whose next entry has the
\* same size
C28_Witness ==
  \E i \in 0..(BIN - 1) :
    /\ bin[i] # heap_head
    /\ next(Heap, bin[i]) # heap_head
    /\ SizeOf(next(Heap, bin[i])) = SizeOf(bin[i])
    /\ \/ call.op = "free" /\ bin[i] = call.ptr
       \/ /\ call.op = "realloc" /\ call.ret = call.ptr /\ call.ptr # NULL
          /\ bin[i] = call.ptr + SizeOf(call.ptr)

\* ---- C29 -----------------------------------------------------------------
\* the block sizes: the multiples of 8 from the minimum block size up
BlockSizes == {WSIZE * n : n \in (DSIZE \div WSIZE)..MaxSizeUnits}

\* the class index as insert, delete and find_fit compute it for size s
Index(s) ==
  /\ call.op = "mm_init"
  /\ call' = [op |-> "index", size |-> s, insert |-> insert_index(s),
              delete |-> delete_index(s), find_fit |-> find_fit_index(s)]
  /\ UNCHANGED <<mem, bin, brk, heap_listp, tail_block, live, status, profile,
               ops>>

NextIndex == \E s \in BlockSizes : Index(s)

SpecIndex == Init /\ [][NextIndex]_vars

\* C29: for every block size s the index that insert, delete and find_fit
\* compute is (s - M)/8 for s <= T and else ceil(log2(s/T)) classes above
\* the last exact class, capped at B - 1; the three compute the same index.
C29_ClassMapping ==
  call.op = "index"
    => /\ call.insert = ClassOf(call.size)
       /\ call.delete = call.insert
       /\ call.find_fit = call.insert

\* ---- C30 -----------------------------------------------------------------
\* sizes to place in a free block of size o: small ones, the whole block,
\* one that leaves less than a minimum block, one that leaves 4104 bytes
PlaceSizes(o) ==
  {a \in {DSIZE, 104, o - 4104, o - WSIZE, o} : a >= DSIZE /\ a <= o}

\* place(b, a) applied to a linked free block, as malloc applies it to the
\* block find_fit or extend_heap returned
Place(b, a) ==
  /\ Step
  /\ Install(place(Heap, b, a))
  /\ live' = Hold(b, a - HSIZE)
  /\ call' = [op |-> "place", ptr |-> b, size |-> a, ret |-> b, dup |-> FALSE]
  /\ status' = status

NextPlace ==
  \/ Next
  \/ \E b \in LinkedBlocks : \E a \in PlaceSizes(SizeOf(b)) : Place(b, a)

SpecPlace == Init /\ [][NextPlace]_vars

\* b is no entry of any bin list of heap h
Unlinked(h, b) ==
  \A i \in 0..(BIN - 1) :
    \A k \in 1..Len(BinList(h, i)) : BinList(h, i)[k] # b

\* what place(b, a) makes, in heap h, of the free block b of size o of heap g
Placed(g, h, b, a, o) ==
  /\ Unlinked(h, b)
  /\ get_alloc(h, header_pointer(b)) = 1
  /\ get_prev_alloc(h, header_pointer(b)) = get_prev_alloc(g, header_pointer(b))
  /\ IF o - a >= DSIZE
     THEN /\ get_size(h, header_pointer(b)) = a
          /\ FreeLinked(h, b + a, o - a)
          /\ get_prev_alloc(h, header_pointer(b + a)) = 1
     ELSE /\ get_size(h, header_pointer(b)) = o
          /\ get_prev_alloc(h, header_pointer(b + o)) = 1
          /\ get_size(h, header_pointer(b + o)) = get_size(g, header_pointer(b + o))
          /\ get_alloc(h, header_pointer(b + o)) = get_alloc(g, header_pointer(b + o))

\* C30: place(b, a) on a linked free block b of size o >= a unlinks b; if
\* o - a >= M, b becomes an allocated block of size a with its P bit kept
\* and a free block of size o - a with P = 1, linked into its class, starts
\* at b + a; else b is allocated with size o and the next block gets P = 1,
\* its size and A bit unchanged.
C30_Placement ==
  [][call'.op = "place"
       => Placed(Heap, Heap', call'.ptr, call'.size, SizeOf(call'.ptr))]_vars

\* ---- C31 -----------------------------------------------------------------
\* the free block of heap g that ends where the block at p starts, if any
PrevFree(g, p) ==
  {b \in FreeBlocks(g) : b + get_size(g, header_pointer(b)) = p}

\* the free block of heap g that starts where the block at p ends, if any
NextFree(g, p) == {p + get_size(g, header_pointer(p))} \cap FreeBlocks(g)

\* the size of the only block of S, 0 when S is empty
SizeIn(g, S) ==
  IF S = {} THEN 0 ELSE get_size(g, header_pointer(CHOOSE b \in S : TRUE))

\* where the merged block starts: at the free previous block Q, else at p
StartOf(p, Q) == IF Q = {} THEN p ELSE CHOOSE b \in Q : TRUE

\* the number of places of the bin lists of heap h that hold b
Occurrences(h, b) ==
  Cardinality({e \in (0..(BIN - 1)) \X (1..Len(Blocks(h))) :
                 /\ e[2] <= Len(BinList(h, e[1]))
                 /\ BinList(h, e[1])[e[2]] = b})

\* heap h holds at start the block merged from p and its free neighbours Q, N
Merged(g, h, p, Q, N, start) ==
  /\ start \in FreeBlocks(h)
  /\ get_size(h, header_pointer(start))
       = get_size(g, header_pointer(p)) + SizeIn(g, Q) + SizeIn(g, N)
  /\ get_prev_alloc(h, header_pointer(start))
       = get_prev_alloc(g, header_pointer(start))
  /\ \A n \in N : Unlinked(h, n)
  /\ Occurrences(h, start) = 1

\* C31: release(p) of an allocated block of size sz leaves a free block that
\* starts at the previous block if that was free and at p otherwise, whose
\* size is sz plus the sizes of the neighbours that were free, that keeps
\* the P bit of its first constituent and is linked exactly once, every
\* absorbed neighbour being unlinked.
C31_CoalesceResult ==
  [][(call'.op = "free" /\ call'.ptr \in AllocatedBlocks(Heap))
       => Merged(Heap, Heap', call'.ptr, PrevFree(Heap, call'.ptr),
                 NextFree(Heap, call'.ptr),
                 StartOf(call'.ptr, PrevFree(Heap, call'.ptr)))]_vars

\* a release has merged the block with the free blocks on both sides
C31_Witness ==
  /\ call.op = "free"
  /\ \E b \in FreeBlocks(Heap) :
       /\ b < call.ptr
       /\ call.ptr + get_size(Heap, header_pointer(call.ptr)) < b + SizeOf(b)

\* ---- C32 -----------------------------------------------------------------
\* C32: when allocate(u) finds no fit for the rounded size a, the region
\* grows by exactly max(a, CHUNK) bytes.
C32_ExtensionAmount ==
  [][(/\ call'.op = "malloc" /\ call'.size > 0 /\ call'.ret # NULL
      /\ find_fit(Heap, Rounded(call'.size)) = NULL)
       => brk' - brk = max(Rounded(call'.size), CHUNKSIZE)]_vars

\* ---- C33 -----------------------------------------------------------------
\* C33: in the relocation fallback of reallocate(p, u) the fresh block has
\* the size of the block allocate(u) returns from the same heap.
C33_RelocationSize ==
  [][(/\ call'.op = "realloc" /\ call'.size > 0 /\ call'.ptr \in Held
      /\ call'.ret # NULL
      /\ Relocates(call'.ptr, call'.size))
       => get_size(Heap', header_pointer(call'.ret))
            = get_size(malloc(Heap, call'.size).h,
                       header_pointer(malloc(Heap, call'.size).bp))]_vars

\* ---- C34 -----------------------------------------------------------------
\* C34: allocate(u) moves the break only if no linked free block has size
\* >= a at the start of the call; when one has, the request is served from
\* the free lists and the break stays.
C34_ExtendOnMiss ==
  [][(call'.op = "malloc" /\ call'.size > 0)
       => /\ brk' # brk => Fits(LinkedBlocks, Rounded(call'.size)) = {}
          /\ Fits(LinkedBlocks, Rounded(call'.size)) # {}
               => /\ brk' = brk
                  /\ call'.ret \in LinkedBlocks
                  /\ SizeOf(call'.ret) >= Rounded(call'.size)]_vars

\* a second block was allocated from the free lists of the initial region
C34_Witness ==
  /\ call.op = "malloc" /\ call.ret # NULL
  /\ brk = InitBytes + CHUNKSIZE
  /\ Cardinality(Held) >= 2


\* ---- the revision with a tail pointer (src/mm.c lines 1-648) -------------
\* Headers and footers are WSIZE bytes, the bins are a static array of
\* absolute pointers, the smallest block is 2 * DSIZE bytes, and tail_block
\* names the last block before the epilogue.  The word helpers get, put,
\* get_size, get_alloc, get_prev_alloc and pack are the same in this revision.
BIN_tb == 36

HeapTail ==
  [mem |-> mem, bin |-> bin, brk |-> brk, heap_listp |-> heap_listp,
   tail_block |-> tail_block]

mem_sbrk_tb(h, incr) ==
  [h EXCEPT !.brk = h.brk + incr,
            !.mem = [w \in 0..((h.brk + incr) \div 4 - 1) |->
                       IF w < h.brk \div 4 THEN h.mem[w] ELSE 0]]

in_heap_tb(h, p) == p <= mem_heap_hi(h) + WSIZE /\ p >= mem_heap_lo

header_pointer_tb(block) == block - WSIZE

footer_pointer_tb(h, block) ==
  block + get_size(h, header_pointer_tb(block)) - DSIZE

next_block_tb(h, block) == block + get_size(h, block - WSIZE)

prev_block_tb(h, block) == block - get_size(h, block - DSIZE)

next_pointer_tb(block) == block

prev_pointer_tb(block) == block + WSIZE

next_tb(h, block) == get(h, block)

prev_tb(h, block) == get(h, block + WSIZE)

\* the class index computed at the top of insert, delete and find_fit
RECURSIVE halve_tb(_, _)
halve_tb(i, size) ==
  IF i < BIN_tb - 1 /\ size > MSIZE THEN halve_tb(i + 1, size \div 2) ELSE i

index_tb(size) ==
  IF size <= MSIZE THEN (size - 2 * DSIZE) \div WSIZE
  ELSE halve_tb((MSIZE - 2 * DSIZE) \div WSIZE, size)

\* insert: the walk of a large class, as <<insert_pointer, bin_pointer>>
RECURSIVE insert_walk_tb(_, _, _, _)
insert_walk_tb(h, asize, insert_pointer, bin_pointer) ==
  IF bin_pointer # NULL /\ asize > get_size(h, header_pointer_tb(bin_pointer))
  THEN insert_walk_tb(h, asize, bin_pointer, next_tb(h, bin_pointer))
  ELSE <<insert_pointer, bin_pointer>>

insert_link_tb(h, bp, i, insert_pointer, bin_pointer) ==
  IF bin_pointer # NULL
  THEN IF insert_pointer # NULL
       THEN put(put(put(put(h, next_pointer_tb(bp), bin_pointer),
                        prev_pointer_tb(bin_pointer), bp),
                    prev_pointer_tb(bp), insert_pointer),
                next_pointer_tb(insert_pointer), bp)
       ELSE set_bin(put(put(put(h, next_pointer_tb(bp), bin_pointer),
                            prev_pointer_tb(bin_pointer), bp),
                        prev_pointer_tb(bp), NULL), i, bp)
  ELSE IF insert_pointer # NULL
       THEN put(put(put(h, next_pointer_tb(bp), NULL),
                    prev_pointer_tb(bp), insert_pointer),
                next_pointer_tb(insert_pointer), bp)
       ELSE set_bin(put(put(h, next_pointer_tb(bp), NULL),
                        prev_pointer_tb(bp), NULL), i, bp)

insert_at_tb(h, bp, i, w) == insert_link_tb(h, bp, i, w[1], w[2])

insert_sized_tb(h, bp, asize) ==
  IF asize <= MSIZE
  THEN insert_link_tb(h, bp, index_tb(asize), NULL, h.bin[index_tb(asize)])
  ELSE insert_at_tb(h, bp, index_tb(asize),
                    insert_walk_tb(h, asize, NULL, h.bin[index_tb(asize)]))

insert_tb(h, bp) == insert_sized_tb(h, bp, get_size(h, header_pointer_tb(bp)))

delete_links_tb(h, i, n, p) ==
  IF n # NULL
  THEN IF p # NULL
       THEN put(put(h, prev_pointer_tb(n), p), next_pointer_tb(p), n)
       ELSE set_bin(put(h, prev_pointer_tb(n), NULL), i, n)
  ELSE IF p # NULL
       THEN put(h, next_pointer_tb(p), NULL)
       ELSE set_bin(h, i, NULL)

delete_tb(h, bp) ==
  delete_links_tb(h, index_tb(get_size(h, header_pointer_tb(bp))),
                  next_tb(h, bp), prev_tb(h, bp))

\* if (tail_block is one of from) tail_block = to;
retail_tb(h, from, to) ==
  IF h.tail_block \in from THEN [h EXCEPT !.tail_block = to] ELSE h

\* header then footer of a free block of the given size, keeping the P bit
put_footer_tb(h, bp, size) ==
  put(h, footer_pointer_tb(h, bp),
      pack(size, get_prev_alloc(h, header_pointer_tb(bp)), 0))

put_free_tb(h, bp, size) ==
  put_footer_tb(put(h, header_pointer_tb(bp),
                    pack(size, get_prev_alloc(h, header_pointer_tb(bp)), 0)),
                bp, size)

coalesce_next_tb(h, bp, n) ==
  put_free_tb(retail_tb(delete_tb(h, n), {n}, bp), bp,
              get_size(h, header_pointer_tb(bp))
                + get_size(h, header_pointer_tb(n)))

coalesce_prev_tb(h, bp, p) ==
  put_free_tb(retail_tb(delete_tb(h, p), {bp}, p), p,
              get_size(h, header_pointer_tb(bp))
                + get_size(h, header_pointer_tb(p)))

coalesce_both_tb(h, bp, p, n) ==
  put_free_tb(retail_tb(delete_tb(delete_tb(h, n), p), {bp, n}, p), p,
              get_size(h, header_pointer_tb(bp))
                + get_size(h, header_pointer_tb(p))
                + get_size(h, header_pointer_tb(n)))

coalesce_cases_tb(h, bp, prev_alloc, next_alloc) ==
  IF prev_alloc = 1 /\ next_alloc = 1
  THEN [h |-> insert_tb(h, bp), bp |-> bp]
  ELSE IF prev_alloc = 1
  THEN [h |-> insert_tb(coalesce_next_tb(h, bp, next_block_tb(h, bp)), bp),
        bp |-> bp]
  ELSE IF next_alloc = 1
  THEN [h |-> insert_tb(coalesce_prev_tb(h, bp, prev_block_tb(h, bp)),
                        prev_block_tb(h, bp)),
        bp |-> prev_block_tb(h, bp)]
  ELSE [h |-> insert_tb(coalesce_both_tb(h, bp, prev_block_tb(h, bp),
                                         next_block_tb(h, bp)),
                        prev_block_tb(h, bp)),
        bp |-> prev_block_tb(h, bp)]

coalesce_tb(h, bp) ==
  coalesce_cases_tb(h, bp, get_prev_alloc(h, header_pointer_tb(bp)),
                    get_alloc(h, header_pointer_tb(next_block_tb(h, bp))))

\* the three tag writes of extend_heap for the new block bp, P taken from
\* the A bit of the block tail_block names, then tail_block = bp
extend_tags_tb(h, bp, size, p) ==
  [put(put_footer_tb(put(h, header_pointer_tb(bp), pack(size, p, 0)),
                     bp, size),
       header_pointer_tb(bp + size), pack(0, 1, 1))
     EXCEPT !.tail_block = bp]

extend_heap_tb(h, words) ==
  IF ~mem_sbrk_ok(h, (words + (words % 2)) * WSIZE)
  THEN [h |-> h, bp |-> NULL]
  ELSE coalesce_tb(
         extend_tags_tb(mem_sbrk_tb(h, (words + (words % 2)) * WSIZE), h.brk,
                        (words + (words % 2)) * WSIZE,
                        get_alloc(h, header_pointer_tb(h.tail_block))),
         h.brk)

EmptyTail ==
  [mem |-> [w \in {} |-> 0], bin |-> [i \in 0..(BIN_tb - 1) |-> NULL],
   brk |-> 0, heap_listp |-> NULL, tail_block |-> NULL]

\* the four words written by mm_init at the old break p, then
\* heap_listp += DSIZE and tail_block = heap_listp
put_sentinels_tb(h, p) ==
  [put(put(put(put(h, p, 0), p + WSIZE, pack(DSIZE, 1, 1)),
           p + 2 * WSIZE, pack(DSIZE, 1, 1)),
       p + 3 * WSIZE, pack(0, 1, 1))
     EXCEPT !.heap_listp = p + DSIZE, !.tail_block = p + DSIZE]

init_bins_tb(h) == [h EXCEPT !.bin = [i \in 0..(BIN_tb - 1) |-> NULL]]

mm_init_tb(h) ==
  IF ~mem_sbrk_ok(h, 4 * WSIZE) THEN init_bins_tb(h)
  ELSE extend_heap_tb(
         put_sentinels_tb(mem_sbrk_tb(init_bins_tb(h), 4 * WSIZE), h.brk),
         CHUNKSIZE \div WSIZE).h

RECURSIVE find_in_list_tb(_, _, _)
find_in_list_tb(h, bp, asize) ==
  IF bp # NULL /\ asize > get_size(h, header_pointer_tb(bp))
  THEN find_in_list_tb(h, next_tb(h, bp), asize)
  ELSE bp

RECURSIVE find_from_tb(_, _, _)
find_from_tb(h, i, asize) ==
  IF i >= BIN_tb THEN NULL
  ELSE IF h.bin[i] # NULL /\ find_in_list_tb(h, h.bin[i], asize) # NULL
  THEN find_in_list_tb(h, h.bin[i], asize)
  ELSE find_from_tb(h, i + 1, asize)

find_fit_tb(h, asize) == find_from_tb(h, index_tb(asize), asize)

\* bp keeps asize bytes and a free block of size bytes is made behind it
split_tb(h, bp, asize, size) ==
  put_footer_tb(
    put(put(h, header_pointer_tb(bp),
            pack(asize, get_prev_alloc(h, header_pointer_tb(bp)), 1)),
        header_pointer_tb(bp + asize), pack(size, 1, 0)),
    bp + asize, size)

\* bp takes all size bytes and the P bit of the block behind it is set
keep_tb(h, bp, size) ==
  put(put(h, header_pointer_tb(bp),
          pack(size, get_prev_alloc(h, header_pointer_tb(bp)), 1)),
      header_pointer_tb(bp + size),
      pack(get_size(h, header_pointer_tb(bp + size)), 1,
           get_alloc(h, header_pointer_tb(bp + size))))

place_untracked_tb(h, bp, asize, oldsize) ==
  IF oldsize - asize >= 2 * DSIZE
  THEN insert_tb(split_tb(h, bp, asize, oldsize - asize), bp + asize)
  ELSE keep_tb(h, bp, oldsize)

place_cut_tb(h, bp, asize, oldsize) ==
  IF oldsize - asize >= 2 * DSIZE
  THEN retail_tb(insert_tb(split_tb(h, bp, asize, oldsize - asize),
                           bp + asize),
                 {bp}, bp + asize)
  ELSE keep_tb(h, bp, oldsize)

place_tb(h, bp, asize) ==
  place_cut_tb(delete_tb(h, bp), bp, asize,
               get_size(h, header_pointer_tb(bp)))

adjust_tb(size) ==
  IF size <= 3 * WSIZE THEN 2 * DSIZE
  ELSE WSIZE * ((size + WSIZE + WSIZE - 1) \div WSIZE)

malloc_extended_tb(r, asize) ==
  IF r.bp = NULL THEN r
  ELSE [h |-> place_tb(r.h, r.bp, asize), bp |-> r.bp]

malloc_sized_tb(h, asize) ==
  IF find_fit_tb(h, asize) # NULL
  THEN [h |-> place_tb(h, find_fit_tb(h, asize), asize),
        bp |-> find_fit_tb(h, asize)]
  ELSE malloc_extended_tb(
         extend_heap_tb(h, max(asize, CHUNKSIZE) \div WSIZE), asize)

malloc_tb(h, size) ==
  IF size <= 0 THEN [h |-> h, bp |-> NULL]
  ELSE malloc_sized_tb(h, adjust_tb(size))

free_next_tb(h, ptr) ==
  IF next_block_tb(h, ptr) # mem_heap_hi(h) + WSIZE
  THEN put(h, header_pointer_tb(next_block_tb(h, ptr)),
           pack(get_size(h, header_pointer_tb(next_block_tb(h, ptr))), 0,
                get_alloc(h, header_pointer_tb(next_block_tb(h, ptr)))))
  ELSE h

free_tb(h, ptr) ==
  IF \/ ptr = 0
     \/ ~in_heap_tb(h, ptr)
     \/ ~aligned(ptr)
     \/ get_alloc(h, header_pointer_tb(ptr)) = 0
  THEN h
  ELSE coalesce_tb(
         free_next_tb(
           put_free_tb(h, ptr, get_size(h, header_pointer_tb(ptr))), ptr),
         ptr).h

\* the block behind the remainder p of a shrunk block gets P = 0
shrink_next_tb(h, p) ==
  IF p # mem_heap_hi(h) + WSIZE
  THEN put(h, header_pointer_tb(next_block_tb(h, p)),
           pack(get_size(h, header_pointer_tb(next_block_tb(h, p))), 0,
                get_alloc(h, header_pointer_tb(next_block_tb(h, p)))))
  ELSE h

realloc_shrink_tb(h, oldptr, size, oldsize) ==
  IF oldsize - size >= 2 * DSIZE
  THEN retail_tb(
         insert_tb(shrink_next_tb(split_tb(h, oldptr, size, oldsize - size),
                                  oldptr + size),
                   oldptr + size),
         {oldptr}, oldptr + size)
  ELSE keep_tb(h, oldptr, oldsize)

\* h: the heap after delete(nextblock); asize: the two sizes together
realloc_grow_tb(h, oldptr, size, asize, nextblock) ==
  IF asize - size >= 2 * DSIZE
  THEN retail_tb(insert_tb(split_tb(h, oldptr, size, asize - size),
                           oldptr + size),
                 {nextblock}, oldptr + size)
  ELSE retail_tb(keep_tb(h, oldptr, asize), {nextblock}, oldptr)

realloc_move_tb(r, oldptr, oldsize) ==
  IF r.bp = NULL THEN [h |-> r.h, bp |-> NULL]
  ELSE [h |-> free_tb(memcpy(r.h, r.bp, oldptr, oldsize), oldptr),
        bp |-> r.bp]

realloc_sized_tb(h, oldptr, size, oldsize, nextblock) ==
  IF size <= oldsize
  THEN [h |-> realloc_shrink_tb(h, oldptr, size, oldsize), bp |-> oldptr]
  ELSE IF /\ get_alloc(h, header_pointer_tb(nextblock)) = 0
          /\ size - oldsize - get_size(h, header_pointer_tb(nextblock)) < 0
  THEN [h |-> realloc_grow_tb(delete_tb(h, nextblock), oldptr, size,
                              get_size(h, header_pointer_tb(nextblock))
                                + oldsize,
                              nextblock),
        bp |-> oldptr]
  ELSE realloc_move_tb(malloc_tb(h, size), oldptr, oldsize)

realloc_ready_tb(h, oldptr, size) ==
  IF size = 0 THEN [h |-> free_tb(h, oldptr), bp |-> NULL]
  ELSE IF oldptr = NULL THEN malloc_tb(h, size)
  ELSE IF ~aligned(oldptr) \/ ~in_heap_tb(h, oldptr)
  THEN [h |-> h, bp |-> NULL]
  ELSE realloc_sized_tb(h, oldptr, adjust_tb(size),
                        get_size(h, header_pointer_tb(oldptr)),
                        next_block_tb(h, oldptr))

realloc_tb(h, oldptr, size) ==
  realloc_ready_tb(IF h.heap_listp = 0 THEN mm_init_tb(h) ELSE h,
                   oldptr, size)

calloc_tb(h, nmemb, size) ==
  calloc_clear(malloc_tb(h, nmemb * size), nmemb * size)

\* ---- client of the revision with a tail pointer ---------------------------
InstallTail(h) ==
  /\ mem' = h.mem
  /\ bin' = h.bin
  /\ brk' = h.brk
  /\ heap_listp' = h.heap_listp
  /\ tail_block' = h.tail_block

InitTail ==
  /\ profile = "small"
  /\ mem = mm_init_tb(EmptyTail).mem
  /\ bin = mm_init_tb(EmptyTail).bin
  /\ brk = mm_init_tb(EmptyTail).brk
  /\ heap_listp = mm_init_tb(EmptyTail).heap_listp
  /\ tail_block = mm_init_tb(EmptyTail).tail_block
  /\ live = None
  /\ call = [op |-> "mm_init", ptr |-> NULL, size |-> 0, ret |-> NULL, dup |-> FALSE]
  /\ status = "ok"
  /\ ops = 0

TailReturn(op, p, u, r) ==
  /\ InstallTail(r.h)
  /\ call' = [op |-> op, ptr |-> p, size |-> u, ret |-> r.bp,
              dup |-> r.bp \in Held \ {p}]

MallocTail(u) ==
  /\ Step
  /\ TailReturn("malloc", NULL, u, malloc_tb(HeapTail, u))
  /\ live' = IF call'.ret # NULL THEN Hold(call'.ret, u) ELSE live
  /\ status' = status

FreeTail(p) ==
  /\ Step
  /\ TailReturn("free", p, 0, [h |-> free_tb(HeapTail, p), bp |-> NULL])
  /\ live' = Drop(p)
  /\ status' = status

ReallocTail(p, u) ==
  /\ Step
  /\ TailReturn("realloc", p, u, realloc_tb(HeapTail, p, u))
  /\ live' = IF u = 0 THEN Drop(p)
             ELSE IF call'.ret = NULL THEN live
             ELSE [q \in (Held \ {p}) \cup {call'.ret} |->
                     IF q = call'.ret THEN u ELSE live[q]]
  /\ status' = status

CallocTail(n, s) ==
  /\ Step
  /\ TailReturn("calloc", NULL, n * s, calloc_tb(HeapTail, n, s))
  /\ live' = IF call'.ret # NULL THEN Hold(call'.ret, n * s) ELSE live
  /\ status' = IF calloc_tb(HeapTail, n, s).ub THEN "segv" ELSE "ok"

RECURSIVE walk_tb(_, _, _)
walk_tb(h, bp, fuel) ==
  IF fuel = 0 \/ get_size(h, header_pointer_tb(bp)) = 0 THEN {}
  ELSE {bp} \cup walk_tb(h, next_block_tb(h, bp), fuel - 1)

FreeBlocksTail ==
  {b \in walk_tb(HeapTail, next_block_tb(HeapTail, heap_listp),
                 brk \div WSIZE) :
     get_alloc(HeapTail, header_pointer_tb(b)) = 0}

NextTail ==
  \/ \E u \in Sizes \cup {0} : MallocTail(u)
  \/ \E p \in Held \cup FreeBlocksTail \cup {NULL, Misaligned, Outside} :
        FreeTail(p)
  \/ \E p \in Held \cup {NULL} : \E u \in ReallocSizes : ReallocTail(p, u)
  \/ \E p \in {Misaligned, Outside} : \E u \in {0, 8} : ReallocTail(p, u)
  \/ \E a \in CallocArgs : CallocTail(a[1], a[2])

SpecTail == InitTail /\ [][NextTail]_vars

\* ---- C35 -----------------------------------------------------------------
RECURSIVE last_tb(_, _, _)
last_tb(h, bp, fuel) ==
  IF fuel = 0 \/ get_size(h, header_pointer_tb(next_block_tb(h, bp))) = 0
  THEN bp
  ELSE last_tb(h, next_block_tb(h, bp), fuel - 1)

\* the last block before the epilogue, the prologue when there is none
LastBlock(h) == last_tb(h, h.heap_listp, h.brk \div WSIZE)

\* C35: after every public call tail_block names the last physical block
\* before the epilogue (the prologue when there is none), that block ends at
\* the epilogue header, and so the P bit extend_heap would write into a new
\* block is the A bit of the block physically preceding it.
C35_TailTracking ==
  /\ tail_block = LastBlock(HeapTail)
  /\ next_block_tb(HeapTail, tail_block) = brk
  /\ get_alloc(HeapTail, header_pointer_tb(tail_block))
       = get_alloc(HeapTail, header_pointer_tb(LastBlock(HeapTail)))

\* a call grew the region and its new block was merged into a free tail
C35_Witness ==
  /\ brk > 4 * WSIZE + CHUNKSIZE
  /\ call.ret # NULL
  /\ tail_block # call.ret
  /\ get_alloc(HeapTail, header_pointer_tb(tail_block)) = 0
  /\ Cardinality(Held) >= 2

\* ---- C36 -----------------------------------------------------------------
\* the entries L of one bin list are linked both ways, the head has no
\* predecessor, and the walk from the head ends at nil without repeating
LinksSound(h, L) ==
  /\ L # <<>> => prev(h, L[1]) = heap_head
  /\ \A k \in 1..Len(L) :
       /\ next(h, L[k]) # heap_head => prev(h, next(h, L[k])) = L[k]
       /\ prev(h, L[k]) # heap_head => next(h, prev(h, L[k])) = L[k]
  /\ Len(L) < h.brk \div WSIZE
  /\ \A j, k \in 1..Len(L) : j < k => L[j] # L[k]

\* C36: after every public call, in every bin list the head has a nil prev
\* link, the prev link of every non-nil next is the block itself, the next
\* link of every non-nil prev is the block itself, and the list is finite and
\* acyclic.
C36_LinkIntegrity == \A i \in 0..(BIN - 1) : LinksSound(Heap, BinList(Heap, i))

\* a call has left a bin list of at least two blocks
C36_Witness ==
  /\ call.op \in {"malloc", "realloc"}
  /\ call.ret # NULL
  /\ \E i \in 0..(BIN - 1) : Len(BinList(Heap, i)) >= 2

\* ---- C37 -----------------------------------------------------------------
\* C37: after initialization and after every public call the prologue header
\* holds the value mm_init gave it (size WSIZE, P = 1, A = 1) and the last
\* word of the region is an epilogue header with size 0 and A = 1.
C37_Sentinels ==
  /\ get(Heap, heap_listp - HSIZE) = pack(WSIZE, 1, 1)
  /\ get_size(Heap, brk - HSIZE) = 0
  /\ get_alloc(Heap, brk - HSIZE) = 1

\* the region has grown and the block before the epilogue was taken whole
C37_Witness ==
  /\ call.op \in {"malloc", "realloc", "calloc"}
  /\ call.ret # NULL
  /\ brk > InitBytes + CHUNKSIZE
  /\ call.ret + get_size(Heap, header_pointer(call.ret)) = brk

\* ---- C38 -----------------------------------------------------------------
\* mm_init called again by the client on the allocator as it is; the
\* pointers the client held are given up, and a failed call ends the run
ReInitDone(r) ==
  /\ Install(r.h)
  /\ live' = None
  /\ call' = [op |-> "mm_init", ptr |-> brk, size |-> 0, ret |-> r.rc,
              dup |-> FALSE]
  /\ status' = IF r.rc = 0 THEN "ok" ELSE "failed"

ReInit == Step /\ ReInitDone(mm_init(Heap))

\* after a failed mm_init the client makes no further call
NextReinit == (status = "ok" /\ Next) \/ ReInit

SpecReinit == Init /\ [][NextReinit]_vars

FirstInit == mm_init(Empty).h

\* h is the state of a first initialization moved up by B bytes: the same
\* tags and links at the same distance from heap_listp, the one bin head
\* moved with them
Shifted(h, B) ==
  /\ h.heap_listp = FirstInit.heap_listp + B
  /\ h.brk = FirstInit.brk + B
  /\ \A i \in 0..(BIN - 1) :
       h.bin[i] = IF FirstInit.bin[i] = heap_head THEN heap_head
                  ELSE FirstInit.bin[i] + B
  /\ \A w \in DOMAIN FirstInit.mem : h.mem[w + B \div 4] = FirstInit.mem[w]

\* fresh sentinels, one free block of CHUNKSIZE bytes alone in its bin, no
\* allocated block in the walk, nothing linked below B
Fresh(h, B) ==
  /\ get(h, h.heap_listp - HSIZE) = pack(WSIZE, 1, 1)
  /\ get_size(h, h.brk - HSIZE) = 0
  /\ get_alloc(h, h.brk - HSIZE) = 1
  /\ Blocks(h) = <<B + InitBytes>>
  /\ get_alloc(h, header_pointer(B + InitBytes)) = 0
  /\ get_size(h, header_pointer(B + InitBytes)) = CHUNKSIZE
  /\ \A i \in 0..(BIN - 1) : BinList(h, i) \in {<<>>, <<B + InitBytes>>}
  /\ \E i \in 0..(BIN - 1) : BinList(h, i) = <<B + InitBytes>>

ReallocFreed(p, u) ==
  /\ Step
  /\ Install(realloc(Heap, p, u).h)
  /\ live' = IF realloc(Heap, p, u).bp # NULL
             THEN Hold(realloc(Heap, p, u).bp, u) ELSE live
  /\ call' = [op |-> "realloc", ptr |-> p, size |-> u,
              ret |-> realloc(Heap, p, u).bp, dup |-> FALSE]
  /\ status' = "stale"

NextFreed ==
  \/ status = "ok" /\ Next
  \/ \E p \in FreeBlocks(Heap) : \E u \in ReallocSizes \ {0} : ReallocFreed(p, u)

SpecFreed == Init /\ [][NextFreed]_vars

\* C39: reallocate(p, u) with u > 0 on an aligned in-region pointer p whose
\* block is already free returns null and leaves the block untouched: no
\* header, footer, link or bin changes.
C39_ReallocateFreed ==
  [][(/\ call'.op = "realloc"
      /\ call'.size > 0
      /\ call'.ptr \in FreeBlocks(Heap)
      /\ aligned(call'.ptr)
      /\ in_heap(Heap, call'.ptr))
       => /\ call'.ret = NULL
          /\ UNCHANGED <<mem, bin, brk, heap_listp>>]_vars

=============================================================================
